---- MODULE Spec2Model ----
(***************************************************************************)
(* Macro/combo execution engine of the DCS Macro Deck server               *)
(* (src/exemples/fullServer.py): token resolution, PynputBackend's         *)
(* press_combo, run_macro and the api_press gateway, run by Flask request  *)
(* workers (threaded=True) and by the daemon threads api_press starts.     *)
(*                                                                         *)
(* A Python str is a sequence of one-character strings, so that strip,     *)
(* lower and split are computed character by character.  A key identifier  *)
(* is either a member of pynput's Key enum, written <<"Key.ctrl">>, or the *)
(* literal text _to_key passes through, e.g. <<"w">> or <<"z","z">>.       *)
(***************************************************************************)
EXTENDS Naturals, Sequences, FiniteSets

(***************************************************************************)
(* Bounds of the model.                                                    *)
(***************************************************************************)
MaxRequests == 2   \* requests received over a run
MaxThreads  == 2   \* macro threads started over a run

(***************************************************************************)
(* Strings.                                                                *)
(***************************************************************************)
UpperChars == <<"A","B","C","D","E","F","G","H","I","J","K","L","M",
                "N","O","P","Q","R","S","T","U","V","W","X","Y","Z">>
LowerChars == <<"a","b","c","d","e","f","g","h","i","j","k","l","m",
                "n","o","p","q","r","s","t","u","v","w","x","y","z">>
Whitespace == {" ", "\t", "\n"}

\* str.lower() on one character
LowerChar(c) ==
    IF \E i \in 1..Len(UpperChars) : UpperChars[i] = c
    THEN LowerChars[CHOOSE i \in 1..Len(UpperChars) : UpperChars[i] = c]
    ELSE c

\* str.lower()
Lower(s) == [i \in 1..Len(s) |-> LowerChar(s[i])]

\* str.strip(): drop the leading and the trailing whitespace
RECURSIVE LStrip(_)
LStrip(s) ==
    IF s # << >> /\ Head(s) \in Whitespace THEN LStrip(Tail(s)) ELSE s

RECURSIVE RStrip(_)
RStrip(s) ==
    IF s # << >> /\ s[Len(s)] \in Whitespace
    THEN RStrip(SubSeq(s, 1, Len(s) - 1))
    ELSE s

Strip(s) == RStrip(LStrip(s))

\* combo.split("+"): the pieces between the separators, empty ones included
RECURSIVE SplitFrom(_, _, _)
SplitFrom(s, cur, acc) ==
    IF s = << >> THEN Append(acc, cur)
    ELSE IF Head(s) = "+" THEN SplitFrom(Tail(s), << >>, Append(acc, cur))
    ELSE SplitFrom(Tail(s), Append(cur, Head(s)), acc)

Split(s) == SplitFrom(s, << >>, << >>)

\* [x for x in s if x]
RECURSIVE NonEmpty(_)
NonEmpty(s) ==
    IF s = << >> THEN << >>
    ELSE IF Head(s) = << >> THEN NonEmpty(Tail(s))
    ELSE <<Head(s)>> \o NonEmpty(Tail(s))

\* reversed(s)
Reversed(s) == [i \in 1..Len(s) |-> s[Len(s) + 1 - i]]

(***************************************************************************)
(* PynputBackend.special: the table of named keys.                         *)
(***************************************************************************)
special ==
    { << <<"c","t","r","l">>,                 <<"Key.ctrl">> >>,
      << <<"s","h","i","f","t">>,             <<"Key.shift">> >>,
      << <<"a","l","t">>,                     <<"Key.alt">> >>,
      << <<"a","l","t","g","r">>,             <<"Key.alt_gr">> >>,
      << <<"c","m","d">>,                     <<"Key.cmd">> >>,
      << <<"w","i","n">>,                     <<"Key.cmd">> >>,
      << <<"e","n","t","e","r">>,             <<"Key.enter">> >>,
      << <<"t","a","b">>,                     <<"Key.tab">> >>,
      << <<"s","p","a","c","e">>,             <<"Key.space">> >>,
      << <<"e","s","c">>,                     <<"Key.esc">> >>,
      << <<"e","s","c","a","p","e">>,         <<"Key.esc">> >>,
      << <<"b","a","c","k","s","p","a","c","e">>, <<"Key.backspace">> >>,
      << <<"d","e","l","e","t","e">>,         <<"Key.delete">> >>,
      << <<"h","o","m","e">>,                 <<"Key.home">> >>,
      << <<"e","n","d">>,                     <<"Key.end">> >>,
      << <<"p","a","g","e","u","p">>,         <<"Key.page_up">> >>,
      << <<"p","a","g","e","d","o","w","n">>, <<"Key.page_down">> >>,
      << <<"u","p">>,                         <<"Key.up">> >>,
      << <<"d","o","w","n">>,                 <<"Key.down">> >>,
      << <<"l","e","f","t">>,                 <<"Key.left">> >>,
      << <<"r","i","g","h","t">>,             <<"Key.right">> >>,
      << <<"f","1">>,                         <<"Key.f1">> >>,
      << <<"f","2">>,                         <<"Key.f2">> >>,
      << <<"f","3">>,                         <<"Key.f3">> >>,
      << <<"f","4">>,                         <<"Key.f4">> >>,
      << <<"f","5">>,                         <<"Key.f5">> >>,
      << <<"f","6">>,                         <<"Key.f6">> >>,
      << <<"f","7">>,                         <<"Key.f7">> >>,
      << <<"f","8">>,                         <<"Key.f8">> >>,
      << <<"f","9">>,                         <<"Key.f9">> >>,
      << <<"f","1","0">>,                     <<"Key.f10">> >>,
      << <<"f","1","1">>,                     <<"Key.f11">> >>,
      << <<"f","1","2">>,                     <<"Key.f12">> >> }

\* the members of pynput's Key enum the table maps to
KeyEnum == { e[2] : e \in special }

\* the normalization of _to_key, were the case kept: token.strip()
NormalizeStripOnly(token) == Strip(token)

\* the normalization of _to_key: token.strip().lower()
Normalize(token) == Lower(Strip(token))

\* self.special.get(t, t)
SpecialGet(t) ==
    IF \E e \in special : e[1] = t
    THEN (CHOOSE e \in special : e[1] = t)[2]
    ELSE t

\* a _to_key that rejects what is neither a special name nor one character
ToKeyRaisesStrict(token) ==
    /\ SpecialGet(Normalize(token)) \notin KeyEnum
    /\ Len(Normalize(token)) # 1

\* whether _to_key raises on the token: it has no failing path
ToKeyRaises(token) == FALSE

\* PynputBackend._to_key
ToKey(token) == SpecialGet(Normalize(token))

\* the tokens of a combo: combo.split("+") without the empty pieces
Tokens(combo) == NonEmpty(Split(combo))

\* the parts of press_combo: the key identifier of every token
Parts(combo) == [i \in 1..Len(Tokens(combo)) |-> ToKey(Tokens(combo)[i])]

\* what Controller.press and Controller.release can inject: a member of the
\* Key enum or a single character; any other text makes the call raise
Injectable(key) == key \in KeyEnum \/ Len(key) = 1

(***************************************************************************)
(* Configuration: SECRET_TOKEN, BUTTONS, MACROS.                           *)
(***************************************************************************)
\* Python's None, as a str value and as a name
NoneStr  == <<"<None>">>
NoneName == "<None>"

\* Python truthiness of an optional str: None and "" are false
Truthy(x) == x # NoneStr /\ x # << >>

\* the same for a name
TruthyName(x) == x # NoneName /\ x # ""

\* the values DECK_TOKEN gives SECRET_TOKEN: the default, or unset to empty
SecretTokens == {"change-me", ""}

\* b.get("combo"), b.get("macro") are None where the entry has no such key
BUTTONS ==
    << [id |-> "gear",   combo |-> <<"w">>,                 macro |-> NoneName],
       [id |-> "flaps",  combo |-> <<"f">>,                 macro |-> NoneName],
       [id |-> "brake",  combo |-> <<"w">>,                 macro |-> NoneName],
       [id |-> "light",  combo |-> <<"l">>,                 macro |-> NoneName],
       [id |-> "weapon", combo |-> <<"s","p","a","c","e">>, macro |-> NoneName],
       [id |-> "view1",  combo |-> <<"f","1">>,             macro |-> NoneName],
       [id |-> "view2",  combo |-> <<"f","2">>,             macro |-> NoneName],
       [id |-> "comm",   combo |-> <<"\"">>,                macro |-> NoneName],
       [id |-> "start",  combo |-> NoneStr,                 macro |-> "cold_start_demo"] >>

\* the macro table as shipped; delays in milliseconds
BuiltinMACROS ==
    [ n \in {"cold_start_demo"} |->
        << [combo |-> <<"r","c","t","r","l","+","h","o","m","e">>, delay |-> 200],
           [combo |-> <<"l","c","t","r","l","+","h","o","m","e">>, delay |-> 500],
           [combo |-> <<"l","s","h","i","f","t","+","l">>,         delay |-> 200],
           [combo |-> <<"l","c","t","r","l","+","l">>,             delay |-> 200],
           [combo |-> <<"f">>,                                     delay |-> 200],
           [combo |-> <<"f">>,                                     delay |-> 200] >> ]

\* a macro table edited to the user's own bindings, as the file asks for
EditedMACROS ==
    [ n \in {"cold_start_demo", "lights"} |->
        IF n = "cold_start_demo"
        THEN << [combo |-> <<"c","t","r","l","+","f">>, delay |-> 200],
                [combo |-> <<"w">>,                     delay |-> 500] >>
        ELSE << [combo |-> <<"w">>,                     delay |-> 0] >> ]

MacroTables == {BuiltinMACROS, EditedMACROS}

(***************************************************************************)
(* Requests: the token sent and the JSON body.                             *)
(***************************************************************************)
RequestTokens == {NoneName, "change-me", "wrong"}

RequestBodies ==
    { [id |-> "gear",           combo |-> NoneStr, macro |-> NoneName],
      [id |-> "start",          combo |-> NoneStr, macro |-> NoneName],
      [id |-> "does-not-exist", combo |-> NoneStr, macro |-> NoneName],
      [id |-> NoneName,         combo |-> NoneStr, macro |-> NoneName],
      [id |-> "",               combo |-> << >>,   macro |-> ""],
      [id |-> NoneName,         combo |-> <<"C","t","r","l","+","f">>, macro |-> NoneName],
      [id |-> NoneName,         combo |-> <<"f","+","z","z">>, macro |-> NoneName],
      [id |-> NoneName,         combo |-> <<"w">>, macro |-> "lights"],
      [id |-> NoneName,         combo |-> NoneStr, macro |-> "lights"],
      [id |-> NoneName,         combo |-> NoneStr, macro |-> "ghost"],
      [id |-> "start",          combo |-> <<"w">>, macro |-> "ghost"] }

Requests == { [token |-> t, data |-> d] : t \in RequestTokens, d \in RequestBodies }

(***************************************************************************)
(* State.                                                                  *)
(***************************************************************************)
NumWorkers == 2    \* Flask request workers serving at the same time

Workers   == { <<"w", i>> : i \in 1..NumWorkers }
Threads   == { <<"t", i>> : i \in 1..MaxThreads }
Executors == Workers \cup Threads

VARIABLES
    SECRET_TOKEN, \* the configured token
    MACROS,       \* the macro table
    pc,           \* where each worker or macro thread stands
    combo,        \* press_combo: the combo string it was called with
    parts,        \* press_combo: the key identifiers to press
    pressed,      \* press_combo: the keys pressed so far
    queue,        \* press_combo: what reversed(pressed) has yet to yield
    raised,       \* press_combo: an exception is on its way to the caller
    calls,        \* the backend calls of the current press_combo, in order
    resp,         \* the last response each worker returned
    macro,        \* api_press: the macro name on the macro path
    child,        \* the macro thread a worker has just started
    name,         \* run_macro: macro_name
    seq,          \* run_macro: seq
    cursor,       \* run_macro: the position of the for loop in seq
    mlog,         \* the backend calls and sleeps of each macro thread, in order
    down,         \* the keys physically down on the shared keyboard
    lifted,       \* the keys another executor's release lifted during this combo
    nreq,         \* requests received
    nthreads,     \* macro threads started
    given,        \* _to_key called on its own: the tokens given
    resolved,     \* _to_key called on its own: the key identifiers returned
    handler,      \* test.py, sendCommand: where the handler stands
    cmd,          \* test.py, sendCommand: cmd
    keys_to_press, \* test.py, sendCommand: keys_to_press
    sent,         \* test.py, sendCommand: its keyboard calls, in order
    status,       \* test.py, sendCommand: the HTTP status it returns
    keyboard,     \* test.py: the keys down on its keyboard
    ncmd          \* test.py: commands received

vars == << SECRET_TOKEN, MACROS, pc, combo, parts, pressed, queue, raised, calls, resp,
           macro, child, name, seq, cursor, mlog, down, lifted, nreq, nthreads,
           given, resolved, handler, cmd, keys_to_press, sent, status, keyboard,
           ncmd >>

comboVars  == << combo, parts, pressed, queue, raised, calls >>
threadVars == << name, seq, cursor, mlog >>
config     == << SECRET_TOKEN, MACROS >>
gateVars   == << macro, child >>
resolverVars == << given, resolved >>

\* the state that is not the server's
sendVars   == << handler, cmd, keys_to_press, sent, status, keyboard, ncmd >>
outside    == << resolverVars, sendVars >>

NoResponse == [status |-> 0, kind |-> "none", value |-> << >>]
NoThread   == <<"t", 0>>

\* the server after the module is loaded
InitServer ==
    /\ SECRET_TOKEN \in SecretTokens
    /\ MACROS \in MacroTables
    /\ pc = [e \in Executors |-> IF e \in Workers THEN "idle" ELSE "unused"]
    /\ combo   = [e \in Executors |-> << >>]
    /\ parts   = [e \in Executors |-> << >>]
    /\ pressed = [e \in Executors |-> << >>]
    /\ queue   = [e \in Executors |-> << >>]
    /\ raised  = [e \in Executors |-> FALSE]
    /\ calls   = [e \in Executors |-> << >>]
    /\ resp    = [w \in Workers |-> NoResponse]
    /\ macro   = [w \in Workers |-> NoneName]
    /\ child   = [w \in Workers |-> NoThread]
    /\ name    = [t \in Threads |-> NoneName]
    /\ seq     = [t \in Threads |-> << >>]
    /\ cursor  = [t \in Threads |-> 0]
    /\ mlog    = [t \in Threads |-> << >>]
    /\ down    = {}
    /\ lifted  = [e \in Executors |-> {}]
    /\ nreq = 0
    /\ nthreads = 0

\* the calls of _to_key followed on their own
Calls == 1..2

\* no call of _to_key is followed on its own
NoResolverCalls ==
    /\ given    = [i \in Calls |-> << >>]
    /\ resolved = [i \in Calls |-> NoneStr]

\* test.py is a program of its own: here it is not running
NoSendCommand ==
    /\ handler = "idle"
    /\ cmd = NoneStr
    /\ keys_to_press = << >>
    /\ sent = << >>
    /\ status = 0
    /\ keyboard = {}
    /\ ncmd = 0

Init == InitServer /\ NoResolverCalls /\ NoSendCommand

(***************************************************************************)
(* api_press: the gate and the dispatch.                                   *)
(***************************************************************************)
\* require_token, were a request without a token let through
TokenRejectedUnlessMissing(secret, token) ==
    secret # "" /\ token # NoneName /\ token # secret

\* require_token: abort(401) when a token is configured and the request's differs
TokenRejected(secret, token) == secret # "" /\ token # secret

\* next((b for b in BUTTONS if b["id"] == btn_id), None)
Found(btn_id) == { i \in 1..Len(BUTTONS) : BUTTONS[i].id = btn_id }
FirstFound(btn_id) == BUTTONS[CHOOSE i \in Found(btn_id) : \A j \in Found(btn_id) : i <= j]

\* combo and macro after the lookup of the id, were the request's own combo
\* and macro kept where the button has none
EffectiveKeepsRequest(data) ==
    IF TruthyName(data.id) /\ Found(data.id) # {}
    THEN [combo |-> IF Truthy(FirstFound(data.id).combo)
                    THEN FirstFound(data.id).combo ELSE data.combo,
          macro |-> IF TruthyName(FirstFound(data.id).macro)
                    THEN FirstFound(data.id).macro ELSE data.macro]
    ELSE [combo |-> data.combo, macro |-> data.macro]

\* combo and macro after the lookup of the id, where one is given and found
Effective(data) ==
    IF TruthyName(data.id) /\ Found(data.id) # {}
    THEN [combo |-> FirstFound(data.id).combo, macro |-> FirstFound(data.id).macro]
    ELSE [combo |-> data.combo, macro |-> data.macro]

\* which return of api_press the request takes, were an id that matches no
\* button to fall through to the combo and the macro of the request
DispatchUnknownIdFallsThrough(secret, r) ==
    IF TokenRejected(secret, r.token) THEN "401"
    ELSE IF Truthy(Effective(r.data).combo) THEN "combo"
    ELSE IF TruthyName(Effective(r.data).macro) THEN "macro"
    ELSE "400"

\* which return of api_press the request takes
Dispatch(secret, r) ==
    IF TokenRejected(secret, r.token) THEN "401"
    ELSE IF TruthyName(r.data.id) /\ Found(r.data.id) = {} THEN "404"
    ELSE IF Truthy(Effective(r.data).combo) THEN "combo"
    ELSE IF TruthyName(Effective(r.data).macro) THEN "macro"
    ELSE "400"

\* the responses
Resp401 == [status |-> 401, kind |-> "abort", value |-> << >>]
Resp404 == [status |-> 404, kind |-> "unknown button", value |-> << >>]
Resp400 == [status |-> 400, kind |-> "no combo or macro", value |-> << >>]
Resp500 == [status |-> 500, kind |-> "exception", value |-> << >>]
\* jsonify({"ok": True, "type": "combo", "combo": combo})
RespCombo(c) == [status |-> 200, kind |-> "combo", value |-> c]
\* the macro response, were its type the combo's
RespMacroAsCombo(m) == [status |-> 200, kind |-> "combo", value |-> <<m>>]

\* jsonify({"ok": True, "type": "macro", "macro": macro})
RespMacro(m) == [status |-> 200, kind |-> "macro", value |-> <<m>>]

\* worker w serves request r, which ends in api_press itself with an error response
RejectRequest(w, r) ==
    /\ pc[w] = "idle"
    /\ nreq < MaxRequests
    /\ Dispatch(SECRET_TOKEN, r) \in {"401", "404", "400"}
    /\ resp' = [resp EXCEPT ![w] =
                   IF Dispatch(SECRET_TOKEN, r) = "401" THEN Resp401
                   ELSE IF Dispatch(SECRET_TOKEN, r) = "404" THEN Resp404
                   ELSE Resp400]
    /\ pc' = [pc EXCEPT ![w] = "respond"]
    /\ nreq' = nreq + 1
    /\ UNCHANGED << config, outside, comboVars, gateVars, threadVars, down, lifted, nthreads >>

\* a request that ends in api_press itself, with an error response
Reject(w) == \E r \in Requests : RejectRequest(w, r)

(***************************************************************************)
(* PynputBackend.press_combo, run by a worker or by a macro thread.        *)
(***************************************************************************)
Range(s) == { s[i] : i \in 1..Len(s) }

Call(op, key, ok) == [op |-> op, key |-> key, ok |-> ok]

\* the keys the current press_combo of e has pressed and issued no release for
HeldKeys(e) ==
    { k \in Range(pressed[e]) :
        \A i \in 1..Len(calls[e]) : ~(calls[e][i].op = "release" /\ calls[e][i].key = k) }

\* what a macro thread's call adds to the logs, were one log shared by all threads
LoggedShared(e, op, key) ==
    IF e \in Threads
    THEN [t \in Threads |-> Append(mlog[t], [op |-> op, step |-> cursor[e], key |-> key])]
    ELSE mlog

\* what a macro thread's call adds to its log
Logged(e, op, key) ==
    IF e \in Threads
    THEN [mlog EXCEPT ![e] = Append(@, [op |-> op, step |-> cursor[e], key |-> key])]
    ELSE mlog

\* the outcomes of Controller.press: it raises on text it cannot inject, and
\* may raise on any key (no permission to inject input)
PressResults(key) == IF Injectable(key) THEN {TRUE, FALSE} ELSE {FALSE}

\* the outcomes of Controller.release
ReleaseResults(key) == IF Injectable(key) THEN {TRUE, FALSE} ELSE {FALSE}

\* pressed after kb.press(p) and, unless it raised, pressed.append(p), with
\* the key appended whether or not the press raised
PressedAfterAppendFirst(pr, p, ok) == Append(pr, p)

\* pressed after kb.press(p) and, unless it raised, pressed.append(p)
PressedAfter(pr, p, ok) == IF ok THEN Append(pr, p) ELSE pr

\* the releases left after one release call, were its exception to leave the loop
QueueAfterReleaseAbort(q, ok) == IF ok THEN Tail(q) ELSE << >>

\* the releases left after one release call: the except clause swallows a
\* failure and the loop goes on
QueueAfterRelease(q, ok) == Tail(q)

\* the order of the unwind, were it the order of pressing
ReleaseOrderForward(pr) == pr

\* the order of the unwind: reversed(pressed)
ReleaseOrder(pr) == Reversed(pr)

\* the unwind a failed press leaves, were there no finally clause
NoUnwindOnError(pr) == << >>

\* the unwind a failed press leaves: the finally clause runs on the way out
UnwindOnError(pr) == ReleaseOrder(pr)

\* the call of press_combo(c) by e: parts is built, then the try block is entered
EnterCombo(e, c) ==
    /\ combo'   = [combo   EXCEPT ![e] = c]
    /\ parts'   = [parts   EXCEPT ![e] = Parts(c)]
    /\ pressed' = [pressed EXCEPT ![e] = << >>]
    /\ queue'   = [queue   EXCEPT ![e] = << >>]
    /\ calls'   = [calls   EXCEPT ![e] = << >>]
    /\ lifted'  = [lifted  EXCEPT ![e] = {}]
    /\ raised'  = [raised  EXCEPT ![e] =
                      \E i \in 1..Len(Tokens(c)) : ToKeyRaises(Tokens(c)[i])]
    /\ pc'      = [pc EXCEPT ![e] = IF raised'[e] THEN "release" ELSE "press"]

\* press_combo is about to return or to let its exception out
AtExit(e) == pc[e] = "release" /\ queue[e] = << >>

\* one turn of the for loop of the try block: kb.press(p); pressed.append(p)
KbPress(e) ==
    /\ pc[e] = "press"
    /\ Len(pressed[e]) < Len(parts[e])
    /\ LET p == parts[e][Len(pressed[e]) + 1] IN
       \E ok \in PressResults(p) :
        /\ calls'   = [calls   EXCEPT ![e] = Append(@, Call("press", p, ok))]
        /\ mlog'    = Logged(e, "press", p)
        /\ pressed' = [pressed EXCEPT ![e] = PressedAfter(@, p, ok)]
        /\ down'    = IF ok THEN down \cup {p} ELSE down
        /\ raised'  = [raised  EXCEPT ![e] = ~ok]
        /\ pc'      = [pc      EXCEPT ![e] = IF ok THEN "press" ELSE "release"]
        /\ queue'   = [queue   EXCEPT ![e] =
                          IF ok THEN << >> ELSE UnwindOnError(pressed'[e])]
    /\ UNCHANGED << config, outside, combo, parts, resp, gateVars, name, seq, cursor,
                    lifted, nreq, nthreads >>

\* time.sleep(0.01) after the last press, then the finally block is entered
Settle(e) ==
    /\ pc[e] = "press"
    /\ Len(pressed[e]) = Len(parts[e])
    /\ pc'    = [pc    EXCEPT ![e] = "release"]
    /\ queue' = [queue EXCEPT ![e] = ReleaseOrder(pressed[e])]
    /\ UNCHANGED << config, outside, combo, parts, pressed, raised, calls, resp, gateVars,
                    threadVars, down, lifted, nreq, nthreads >>

\* one turn of the for loop of the finally block: kb.release(p), failure swallowed
KbRelease(e) ==
    /\ pc[e] = "release"
    /\ queue[e] # << >>
    /\ LET k == Head(queue[e]) IN
       \E ok \in ReleaseResults(k) :
        /\ calls' = [calls EXCEPT ![e] = Append(@, Call("release", k, ok))]
        /\ mlog'  = Logged(e, "release", k)
        /\ queue' = [queue EXCEPT ![e] = QueueAfterRelease(@, ok)]
        /\ down'  = IF ok THEN down \ {k} ELSE down
        /\ lifted' = [x \in Executors |->
                         IF ok /\ x # e /\ k \in HeldKeys(x)
                         THEN lifted[x] \cup {k} ELSE lifted[x]]
    /\ UNCHANGED << config, outside, pc, combo, parts, pressed, raised, resp, gateVars, name,
                    seq, cursor, nreq, nthreads >>

\* the locals of press_combo are gone once it has returned
LeaveCombo(e) ==
    /\ combo'   = [combo   EXCEPT ![e] = << >>]
    /\ parts'   = [parts   EXCEPT ![e] = << >>]
    /\ pressed' = [pressed EXCEPT ![e] = << >>]
    /\ queue'   = [queue   EXCEPT ![e] = << >>]
    /\ calls'   = [calls   EXCEPT ![e] = << >>]
    /\ raised'  = [raised  EXCEPT ![e] = FALSE]
    /\ lifted'  = [lifted  EXCEPT ![e] = {}]

(***************************************************************************)
(* api_press: the combo path and the macro path.                           *)
(***************************************************************************)
\* worker w serves request r, which takes the combo path
ComboRequest(w, r) ==
    /\ pc[w] = "idle"
    /\ nreq < MaxRequests
    /\ Dispatch(SECRET_TOKEN, r) = "combo"
    /\ EnterCombo(w, Effective(r.data).combo)
    /\ nreq' = nreq + 1
    /\ UNCHANGED << config, outside, resp, gateVars, threadVars, down, nthreads >>

\* if combo: press_combo(combo) is called in the worker itself
StartComboRequest(w) == \E r \in Requests : ComboRequest(w, r)

\* the return of press_combo into api_press, were its exception caught and
\* dropped there
ReturnComboErrorDropped(w) ==
    /\ w \in Workers
    /\ AtExit(w)
    /\ resp' = [resp EXCEPT ![w] = RespCombo(combo[w])]
    /\ pc'   = [pc EXCEPT ![w] = "respond"]
    /\ LeaveCombo(w)
    /\ UNCHANGED << config, outside, gateVars, threadVars, down, nreq, nthreads >>

\* press_combo has returned into api_press: the combo response, or the
\* exception leaves the view and Flask answers 500
ReturnCombo(w) ==
    /\ w \in Workers
    /\ AtExit(w)
    /\ resp' = [resp EXCEPT ![w] = IF raised[w] THEN Resp500 ELSE RespCombo(combo[w])]
    /\ pc'   = [pc EXCEPT ![w] = "respond"]
    /\ LeaveCombo(w)
    /\ UNCHANGED << config, outside, gateVars, threadVars, down, nreq, nthreads >>

\* MACROS.get(macro_name, []), were the default the demo macro
MacroGetFallback(table, m) ==
    IF m \in DOMAIN table THEN table[m] ELSE table["cold_start_demo"]

\* MACROS.get(macro_name, [])
MacroGet(table, m) == IF m \in DOMAIN table THEN table[m] ELSE << >>

\* worker w serves request r, which takes the macro path
MacroRequest(w, r) ==
    /\ pc[w] = "idle"
    /\ nreq < MaxRequests
    /\ nthreads < MaxThreads
    /\ Dispatch(SECRET_TOKEN, r) = "macro"
    /\ LET t == <<"t", nthreads + 1>> IN
        /\ pc'     = [pc     EXCEPT ![w] = "started", ![t] = "entry"]
        /\ child'  = [child  EXCEPT ![w] = t]
        /\ macro'  = [macro  EXCEPT ![w] = Effective(r.data).macro]
        /\ name'   = [name   EXCEPT ![t] = Effective(r.data).macro]
    /\ nreq' = nreq + 1
    /\ nthreads' = nthreads + 1
    /\ UNCHANGED << config, outside, comboVars, resp, seq, cursor, mlog, down, lifted >>

\* if macro: threading.Thread(target=run_macro, args=(macro,), daemon=True).start()
StartMacroRequest(w) == \E r \in Requests : MacroRequest(w, r)

\* the return after Thread.start(), were it to wait for the thread (join)
ReturnMacroStartedAfterJoin(w) ==
    /\ pc[w] = "started"
    /\ pc[child[w]] \in {"done", "dead"}
    /\ resp'  = [resp  EXCEPT ![w] = RespMacro(macro[w])]
    /\ pc'    = [pc    EXCEPT ![w] = "respond"]
    /\ UNCHANGED << config, outside, comboVars, gateVars, threadVars, down, lifted,
                    nreq, nthreads >>

\* return jsonify({"ok": True, "type": "macro", "macro": macro})
ReturnMacroStarted(w) ==
    /\ pc[w] = "started"
    /\ resp'  = [resp  EXCEPT ![w] = RespMacro(macro[w])]
    /\ pc'    = [pc    EXCEPT ![w] = "respond"]
    /\ UNCHANGED << config, outside, comboVars, gateVars, threadVars, down, lifted,
                    nreq, nthreads >>

\* the response has gone out to the client; the worker takes the next request
Respond(w) ==
    /\ pc[w] = "respond"
    /\ pc'    = [pc    EXCEPT ![w] = "idle"]
    /\ resp'  = [resp  EXCEPT ![w] = NoResponse]
    /\ child' = [child EXCEPT ![w] = NoThread]
    /\ macro' = [macro EXCEPT ![w] = NoneName]
    /\ UNCHANGED << config, outside, comboVars, threadVars, down, lifted, nreq, nthreads >>

(***************************************************************************)
(* run_macro, in its own thread.                                           *)
(***************************************************************************)
\* the for loop, were it to advance by two
NextCursorSkip(c) == c + 2

\* the for loop takes the next step of seq
NextCursor(c) == c + 1

\* seq = MACROS.get(macro_name, []): the first statement of the thread
RunMacroEntry(t) ==
    /\ pc[t] = "entry"
    /\ seq'    = [seq    EXCEPT ![t] = MacroGet(MACROS, name[t])]
    /\ cursor' = [cursor EXCEPT ![t] = 1]
    /\ pc'     = [pc     EXCEPT ![t] = "loop"]
    /\ UNCHANGED << config, outside, comboVars, resp, gateVars, name, mlog, down,
                    lifted, nreq, nthreads >>

\* for step in seq: press_combo(step["combo"])
MacroStep(t) ==
    /\ pc[t] = "loop"
    /\ cursor[t] <= Len(seq[t])
    /\ EnterCombo(t, seq[t][cursor[t]].combo)
    /\ UNCHANGED << config, outside, resp, gateVars, threadVars, down, nreq, nthreads >>

\* the return of press_combo into run_macro, were a step that raised tried
\* again until it succeeds
StepReturnedRetry(t) ==
    /\ t \in Threads
    /\ AtExit(t)
    /\ pc' = [pc EXCEPT ![t] = IF raised[t] THEN "loop" ELSE "sleep"]
    /\ LeaveCombo(t)
    /\ mlog' = [mlog EXCEPT ![t] =
                   IF raised[t]
                   THEN SelectSeq(@, LAMBDA x : x.step < cursor[t]) ELSE @]
    /\ UNCHANGED << config, outside, resp, gateVars, name, seq, cursor, down,
                    nreq, nthreads >>

\* press_combo has returned into run_macro; nothing there catches its
\* exception, which ends the thread (whose name and log go with it)
StepReturned(t) ==
    /\ t \in Threads
    /\ AtExit(t)
    /\ pc' = [pc EXCEPT ![t] = IF raised[t] THEN "dead" ELSE "sleep"]
    /\ LeaveCombo(t)
    /\ name' = [name EXCEPT ![t] = IF raised[t] THEN NoneName ELSE @]
    /\ mlog' = [mlog EXCEPT ![t] = IF raised[t] THEN << >> ELSE @]
    /\ UNCHANGED << config, outside, resp, gateVars, seq, cursor, down, nreq, nthreads >>

\* time.sleep(float(step.get("delay", 0))) is over; the loop goes on
MacroSleep(t) ==
    /\ pc[t] = "sleep"
    /\ mlog'   = [mlog   EXCEPT ![t] =
                     Append(@, [op |-> "sleep", step |-> cursor[t], key |-> << >>])]
    /\ cursor' = [cursor EXCEPT ![t] = NextCursor(@)]
    /\ pc'     = [pc     EXCEPT ![t] = "loop"]
    /\ UNCHANGED << config, outside, comboVars, resp, gateVars, name, seq, down,
                    lifted, nreq, nthreads >>

\* seq is exhausted: run_macro returns and the thread ends
MacroFinish(t) ==
    /\ pc[t] = "loop"
    /\ cursor[t] > Len(seq[t])
    /\ pc'   = [pc   EXCEPT ![t] = "done"]
    /\ name' = [name EXCEPT ![t] = NoneName]
    /\ mlog' = [mlog EXCEPT ![t] = << >>]
    /\ UNCHANGED << config, outside, comboVars, resp, gateVars, seq, cursor, down, lifted,
                    nreq, nthreads >>

Next ==
    \/ \E w \in Workers : Reject(w)
    \/ \E w \in Workers : StartComboRequest(w)
    \/ \E w \in Workers : ReturnCombo(w)
    \/ \E w \in Workers : StartMacroRequest(w)
    \/ \E w \in Workers : ReturnMacroStarted(w)
    \/ \E w \in Workers : Respond(w)
    \/ \E t \in Threads : RunMacroEntry(t)
    \/ \E t \in Threads : MacroStep(t)
    \/ \E t \in Threads : StepReturned(t)
    \/ \E t \in Threads : MacroSleep(t)
    \/ \E t \in Threads : MacroFinish(t)
    \/ \E e \in Executors : KbPress(e)
    \/ \E e \in Executors : Settle(e)
    \/ \E e \in Executors : KbRelease(e)

Spec == Init /\ [][Next]_vars

(***************************************************************************)
(* Scheduling.  Every macro thread is a thread of its own, which the       *)
(* interpreter keeps scheduling while it can take a step; a backend call   *)
(* and a sleep return (or raise) after a finite time.  Nothing is assumed  *)
(* of the clients: a worker need not ever receive a request.               *)
(***************************************************************************)
\* the steps of macro thread t other than the call of press_combo
ThreadStep(t) ==
    \/ RunMacroEntry(t)
    \/ KbPress(t)
    \/ Settle(t)
    \/ KbRelease(t)
    \/ StepReturned(t)
    \/ MacroSleep(t)
    \/ MacroFinish(t)

\* MacroStep(t) is enabled exactly where its guard holds: EnterCombo sets
\* variables only
CanMacroStep(t) == pc[t] = "loop" /\ cursor[t] <= Len(seq[t])

\* weak fairness of MacroStep(t), written out with its guard for ENABLED
FairMacroStep(t) == []<>(~CanMacroStep(t)) \/ []<><<MacroStep(t)>>_vars

SpecFair ==
    Spec /\ \A t \in Threads : WF_vars(ThreadStep(t)) /\ FairMacroStep(t)

(***************************************************************************)
(* The end of the process.  The macro threads are daemon threads and the   *)
(* request workers of app.run(threaded=True) are too: when the main thread *)
(* ends (Ctrl-C, a signal), the interpreter exits without joining them and *)
(* each stops wherever it stands.  Nothing in the program asks a thread to *)
(* stop or waits for it.                                                   *)
(***************************************************************************)
\* the threads that are running a macro
Alive(t) == pc[t] \in {"entry", "loop", "press", "release", "sleep"}

\* the interpreter exits: every running macro thread is stopped where it is
Shutdown ==
    /\ \E w \in Workers : pc[w] # "exited"
    /\ pc' = [e \in Executors |->
                 IF e \in Workers THEN "exited"
                 ELSE IF Alive(e) THEN "killed"
                 ELSE pc[e]]
    /\ UNCHANGED << config, outside, comboVars, resp, gateVars, threadVars, down, lifted,
                    nreq, nthreads >>

NextOrShutdown ==
    \/ Next
    \/ Shutdown

SpecShutdown == Init /\ [][NextOrShutdown]_vars

(***************************************************************************)
(* PynputBackend._to_key on its own: the function applied to tokens of any *)
(* case and padding.                                                       *)
(***************************************************************************)
TokenInputs ==
    { <<"C","t","r","l">>, <<"c","t","r","l">>, <<" ","C","T","R","L"," ">>,
      <<"c","t","r","l","\t">>, <<"c"," ","t","r","l">>,
      <<"Q">>, <<"q">>, <<" ","q">>, <<"Q","\n">>,
      <<"F","1">>, <<"f","1","0">>, <<"H","o","m","e">>, <<" ","h","O","M","E">>,
      <<"z","z">>, <<"Z","z"," ">>, <<"r","c","t","r","l">>, << >>, <<" ">>, <<"+">> }

InitToKey ==
    /\ InitServer
    /\ NoSendCommand
    /\ given \in [Calls -> TokenInputs]
    /\ resolved = [i \in Calls |-> NoneStr]

\* resolved = backend._to_key(given)
ResolveToken(i) ==
    /\ resolved[i] = NoneStr
    /\ resolved' = [resolved EXCEPT ![i] = ToKey(given[i])]
    /\ UNCHANGED << config, comboVars, resp, gateVars, threadVars, down, lifted,
                    nreq, nthreads, pc, given, sendVars >>

NextToKey == \E i \in Calls : ResolveToken(i)

SpecToKey == InitToKey /\ [][NextToKey]_vars

(***************************************************************************)
(* src/test.py: the sendCommand handler of the aircraft-profile server, a  *)
(* program of its own with its own keyboard Controller.                    *)
(***************************************************************************)
MaxCommands == 2   \* commands received over a run

\* SPECIAL_KEYS: the names are matched as written, capitals included
SPECIAL_KEYS ==
    { << <<"S","h","i","f","t">>,                 <<"Key.shift">> >>,
      << <<"C","t","r","l">>,                     <<"Key.ctrl">> >>,
      << <<"A","l","t">>,                         <<"Key.alt">> >>,
      << <<"T","a","b">>,                         <<"Key.tab">> >>,
      << <<"E","n","t","e","r">>,                 <<"Key.enter">> >>,
      << <<"E","s","c">>,                         <<"Key.esc">> >>,
      << <<"S","p","a","c","e">>,                 <<"Key.space">> >>,
      << <<"U","p">>,                             <<"Key.up">> >>,
      << <<"D","o","w","n">>,                     <<"Key.down">> >>,
      << <<"L","e","f","t">>,                     <<"Key.left">> >>,
      << <<"R","i","g","h","t">>,                 <<"Key.right">> >>,
      << <<"B","a","c","k","s","p","a","c","e">>, <<"Key.backspace">> >>,
      << <<"D","e","l","e","t","e">>,             <<"Key.delete">> >>,
      << <<"F","1">>,                             <<"Key.f1">> >>,
      << <<"F","2">>,                             <<"Key.f2">> >>,
      << <<"F","3">>,                             <<"Key.f3">> >>,
      << <<"F","4">>,                             <<"Key.f4">> >>,
      << <<"F","5">>,                             <<"Key.f5">> >>,
      << <<"F","6">>,                             <<"Key.f6">> >>,
      << <<"F","7">>,                             <<"Key.f7">> >>,
      << <<"F","8">>,                             <<"Key.f8">> >>,
      << <<"F","9">>,                             <<"Key.f9">> >>,
      << <<"F","1","0">>,                         <<"Key.f10">> >>,
      << <<"F","1","1">>,                         <<"Key.f11">> >>,
      << <<"F","1","2">>,                         <<"Key.f12">> >> }

\* SPECIAL_KEYS[part] if part in SPECIAL_KEYS else part
SendKey(part) ==
    IF \E e \in SPECIAL_KEYS : e[1] = part
    THEN (CHOOSE e \in SPECIAL_KEYS : e[1] = part)[2]
    ELSE part

\* cmd.split("+") if "+" in cmd else [cmd]
SendParts(c) ==
    IF \E i \in 1..Len(c) : c[i] = "+" THEN Split(c) ELSE <<c>>

\* keys_to_press once the first loop is over: part.strip(), then the lookup
SendKeys(c) ==
    [i \in 1..Len(SendParts(c)) |-> SendKey(Strip(SendParts(c)[i]))]

\* what Controller.press and Controller.release of test.py's keyboard can
\* inject: a member of the Key enum or a single character
SendInjectable(k) == k \in { e[2] : e \in SPECIAL_KEYS } \/ Len(k) = 1

\* the cmd of the requests; NoneStr is a body without "cmd"
Commands ==
    { NoneStr,
      <<"P">>,
      <<"C","t","r","l","+","c">>,
      <<"c","t","r","l","+","c">>,
      <<"C","t","r","l","+","z","z">>,
      <<"S","h","i","f","t"," ","+"," ","a">>,
      <<"a","+">>,
      <<"C","t","r","l","+","S","h","i","f","t","+","F","1">> }

InitSend ==
    /\ InitServer
    /\ NoResolverCalls
    /\ NoSendCommand

\* the handler is entered: data.get("cmd"), then in the try block the split
\* and the first loop; "+" in None raises, which the except clause catches
ReceiveCommand ==
    /\ handler = "idle"
    /\ ncmd < MaxCommands
    /\ \E c \in Commands :
        /\ cmd' = c
        /\ keys_to_press' = IF c = NoneStr THEN << >> ELSE SendKeys(c)
        /\ handler' = IF c = NoneStr THEN "return" ELSE "press"
        /\ status' = IF c = NoneStr THEN 500 ELSE 0
    /\ sent' = << >>
    /\ ncmd' = ncmd + 1
    /\ UNCHANGED << config, resolverVars, comboVars, resp, gateVars, threadVars,
                    down, lifted, nreq, nthreads, pc, keyboard >>

\* the presses made so far by the handler
SendPressed == Len(SelectSeq(sent, LAMBDA x : x.op = "press"))

\* the releases made so far by the handler
SendReleased == Len(SelectSeq(sent, LAMBDA x : x.op = "release"))

\* for k in keys_to_press: keyboard.press(k); an exception goes to the except
\* clause, which returns the 500 response
SendPress ==
    /\ handler = "press"
    /\ SendPressed < Len(keys_to_press)
    /\ LET k == keys_to_press[SendPressed + 1] IN
       \E ok \in (IF SendInjectable(k) THEN {TRUE, FALSE} ELSE {FALSE}) :
        /\ sent' = Append(sent, Call("press", k, ok))
        /\ keyboard' = IF ok THEN keyboard \cup {k} ELSE keyboard
        /\ handler' = IF ~ok THEN "return"
                      ELSE IF SendPressed + 1 = Len(keys_to_press) THEN "release"
                      ELSE "press"
        /\ status' = IF ok THEN status ELSE 500
    /\ UNCHANGED << config, resolverVars, comboVars, resp, gateVars, threadVars,
                    down, lifted, nreq, nthreads, pc, cmd, keys_to_press, ncmd >>

\* for k in reversed(keys_to_press): keyboard.release(k); an exception goes to
\* the except clause, which returns the 500 response
SendRelease ==
    /\ handler = "release"
    /\ SendReleased < Len(keys_to_press)
    /\ LET k == Reversed(keys_to_press)[SendReleased + 1] IN
       \E ok \in (IF SendInjectable(k) THEN {TRUE, FALSE} ELSE {FALSE}) :
        /\ sent' = Append(sent, Call("release", k, ok))
        /\ keyboard' = IF ok THEN keyboard \ {k} ELSE keyboard
        /\ handler' = IF ~ok THEN "return" ELSE "release"
        /\ status' = IF ok THEN status ELSE 500
    /\ UNCHANGED << config, resolverVars, comboVars, resp, gateVars, threadVars,
                    down, lifted, nreq, nthreads, pc, cmd, keys_to_press, ncmd >>

\* return jsonify({"status": "ok", "executed": cmd})
SendOk ==
    /\ handler = "release"
    /\ SendReleased = Len(keys_to_press)
    /\ handler' = "return"
    /\ status' = 200
    /\ UNCHANGED << config, resolverVars, comboVars, resp, gateVars, threadVars,
                    down, lifted, nreq, nthreads, pc, cmd, keys_to_press, sent,
                    keyboard, ncmd >>

\* the response has gone out; the locals of the handler are gone, the
\* keyboard stays as it is
SendReturn ==
    /\ handler = "return"
    /\ handler' = "idle"
    /\ cmd' = NoneStr
    /\ keys_to_press' = << >>
    /\ sent' = << >>
    /\ status' = 0
    /\ UNCHANGED << config, resolverVars, comboVars, resp, gateVars, threadVars,
                    down, lifted, nreq, nthreads, pc, keyboard, ncmd >>

NextSend ==
    \/ ReceiveCommand
    \/ SendPress
    \/ SendRelease
    \/ SendOk
    \/ SendReturn

SpecSend == InitSend /\ [][NextSend]_vars

(***************************************************************************)
(* Properties of press_combo.                                              *)
(***************************************************************************)
IsPrefix(a, b) == Len(a) <= Len(b) /\ \A i \in 1..Len(a) : a[i] = b[i]

\* the calls of one kind among the calls of the current press_combo of e
CallsOf(e, op) == SelectSeq(calls[e], LAMBDA c : c.op = op)

AllSucceeded(e) == \A i \in 1..Len(calls[e]) : calls[e][i].ok

\* the token is neither a name of the special-key table nor one character
Unresolvable(token) ==
    /\ \A e \in special : e[1] # Normalize(token)
    /\ Len(Normalize(token)) # 1

\* C1: when no backend call fails, press_combo on a combo of n tokens issues
\* exactly n press calls in the declared order and then exactly n release calls
\* in the reverse order; and whatever fails, no release call precedes a press
\* call.
C1_PressThenReverseRelease ==
    \A e \in Executors :
        /\ \A i, j \in 1..Len(calls[e]) :
               i < j => ~(calls[e][i].op = "release" /\ calls[e][j].op = "press")
        /\ (AtExit(e) /\ AllSucceeded(e)) =>
               LET ks == Parts(combo[e])
                   n  == Len(Tokens(combo[e]))
               IN  /\ Len(ks) = n
                   /\ Len(calls[e]) = 2 * n
                   /\ \A i \in 1..n :
                        /\ calls[e][i] = Call("press", ks[i], TRUE)
                        /\ calls[e][n + i] = Call("release", ks[n + 1 - i], TRUE)

\* a combo of two different keys has been pressed and released without failure
C1_Witness ==
    \E e \in Executors :
        /\ AtExit(e) /\ AllSucceeded(e)
        /\ Len(calls[e]) = 4
        /\ calls[e][1].key # calls[e][2].key

\* C2: press_combo never exits with a key it pressed and issued no release
\* for; when the press call of the k-th key fails, the keys before k are
\* released in the reverse order of pressing before the error reaches the
\* caller, and no release call is issued for a key at or after position k.
C2_PressFailureUnwinds ==
    \A e \in Executors :
      /\ AtExit(e) => HeldKeys(e) = {}
      /\ (AtExit(e) /\ raised[e]) =>
            LET k == Len(CallsOf(e, "press")) IN
            /\ k >= 1
            /\ calls[e][k] = Call("press", parts[e][k], FALSE)
            /\ \A i \in 1..(k - 1) : calls[e][i] = Call("press", parts[e][i], TRUE)
            /\ Len(calls[e]) = 2 * k - 1
            /\ \A j \in 1..(k - 1) :
                 /\ calls[e][k + j].op = "release"
                 /\ calls[e][k + j].key = parts[e][k - j]

\* the second key's press has failed with one key held, and that key has been released
C2_Witness ==
    \E e \in Executors :
        /\ AtExit(e) /\ raised[e]
        /\ Len(CallsOf(e, "press")) = 2
        /\ Len(CallsOf(e, "release")) = 1

\* C3: a release call that fails does not skip the releases after it: whatever
\* release calls fail, a release call is issued for every pressed key, in the
\* reverse order of pressing, and a release failure alone raises nothing.
C3_ReleaseFailureSwallowed ==
    \A e \in Executors :
        /\ raised[e] => \E i \in 1..Len(calls[e]) :
                            calls[e][i].op = "press" /\ ~calls[e][i].ok
        /\ AtExit(e) =>
             LET rs == CallsOf(e, "release") IN
             /\ Len(rs) = Len(pressed[e])
             /\ \A j \in 1..Len(rs) : rs[j].key = pressed[e][Len(rs) + 1 - j]

\* the first of two releases has failed, the second was issued all the same,
\* and press_combo returns normally
C3_Witness ==
    \E e \in Executors :
        /\ AtExit(e) /\ ~raised[e]
        /\ Len(pressed[e]) = 2
        /\ \E i \in 1..Len(calls[e]) :
             /\ calls[e][i].op = "release" /\ ~calls[e][i].ok
             /\ i < Len(calls[e])

\* the first position of the current combo of e whose token is unresolvable:
\* its part is then the normalized text, which no backend call can inject
FirstUnresolvable(e) ==
    LET U == { i \in 1..Len(parts[e]) : ~Injectable(parts[e][i]) }
    IN  IF U = {} THEN 0 ELSE CHOOSE i \in U : \A j \in U : i <= j

Entry(op, i, key) == [op |-> op, step |-> i, key |-> key]

\* what step i of a macro logs when no press fails: the presses of its combo
\* in declared order, the releases in reverse order, then the sleep
StepLog(i, c) ==
    LET ks == Parts(c) IN
    [j \in 1..Len(ks) |-> Entry("press", i, ks[j])]
      \o [j \in 1..Len(ks) |-> Entry("release", i, ks[Len(ks) + 1 - j])]
      \o << Entry("sleep", i, << >>) >>

RECURSIVE LogFrom(_, _)
LogFrom(sq, i) ==
    IF i > Len(sq) THEN << >> ELSE StepLog(i, sq[i].combo) \o LogFrom(sq, i + 1)

\* the whole macro, step after step in declared order
ExpectedLog(sq) == LogFrom(sq, 1)

Running(t) == pc[t] \in {"loop", "press", "release", "sleep"}

\* C5: run_macro executes the steps in declared order, one after the other:
\* every call of step i+1 comes after the last call of step i and after the
\* sleep of step i, and the sleep of a step comes after its combo; as long as
\* no press has failed the log is a prefix of the steps in declared order, and
\* it is all of them when the loop ends.
C5_StepsInDeclaredOrder ==
    \A t \in Threads :
        /\ \A i, j \in 1..Len(mlog[t]) :
             i < j =>
                /\ mlog[t][i].step <= mlog[t][j].step
                /\ mlog[t][i].op = "sleep" => mlog[t][i].step < mlog[t][j].step
        /\ \A j \in 1..Len(mlog[t]) :
             mlog[t][j].step > 1 =>
                \E i \in 1..(j - 1) :
                    mlog[t][i] = Entry("sleep", mlog[t][j].step - 1, << >>)
        /\ (Running(t) /\ ~raised[t]) => IsPrefix(mlog[t], ExpectedLog(seq[t]))
        /\ (pc[t] = "loop" /\ cursor[t] > Len(seq[t])) => mlog[t] = ExpectedLog(seq[t])

\* a macro of two steps has run both and its loop is over
C5_Witness ==
    \E t \in Threads :
        /\ pc[t] = "loop" /\ cursor[t] > Len(seq[t])
        /\ Len(seq[t]) = 2
        /\ \E j \in 1..Len(mlog[t]) : mlog[t][j] = Entry("sleep", 2, << >>)

\* C6 as claimed: a step whose combo fails does not stop the macro: no macro
\* thread is ended by a failed step while steps after it are left to run.
C6_FailedStepDoesNotStopMacro ==
    \A t \in Threads : pc[t] = "dead" => cursor[t] >= Len(seq[t])

(***************************************************************************)
(* Properties of the macro path of api_press.                              *)
(***************************************************************************)
HasPress(t) == \E i \in 1..Len(mlog[t]) : mlog[t][i].op = "press"

StepsPending(t) == pc[t] = "entry" \/ (Running(t) /\ cursor[t] <= Len(seq[t]))

\* C7: api_press returns macro-started without waiting for any step of the
\* macro: once the thread is started the return is enabled whatever the thread
\* has or has not done, and a worker is never in a state that waits on a thread.
C7_MacroRequestDoesNotBlock ==
    \A w \in Workers :
        /\ pc[w] \in {"idle", "press", "release", "started", "respond"}
        /\ pc[w] = "started" => ENABLED ReturnMacroStarted(w)

\* the macro-started response is on its way out with steps of that macro still
\* pending, and another worker is serving a combo meanwhile
C7_Witness ==
    \E w, v \in Workers :
        /\ pc[w] = "respond" /\ resp[w] = RespMacro(macro[w])
        /\ StepsPending(child[w]) /\ Len(seq[child[w]]) = 2
        /\ v # w /\ pc[v] \in {"press", "release"}

\* C8 as claimed: no press call of the macro precedes the return of the
\* response by api_press.
C8_ResponseBeforeFirstPress ==
    \A w \in Workers : pc[w] = "started" => ~HasPress(child[w])

\* C8 as amended: api_press starts the macro thread and then returns
\* macro-started (HTTP 200) whatever the thread has done meanwhile; no call of
\* the macro precedes the start of its thread, but a press of its first step may
\* precede the return of the response.
C8_ThreadStartedThenResponse ==
    [][ /\ \A t \in Threads :
             (pc[t] = "unused" /\ pc'[t] # "unused") =>
                /\ pc'[t] = "entry" /\ mlog[t] = << >> /\ calls[t] = << >>
                /\ \E w \in Workers :
                     pc[w] = "idle" /\ pc'[w] = "started" /\ child'[w] = t
        /\ \A w \in Workers :
             (pc[w] = "started" /\ pc'[w] # "started") =>
                /\ pc'[w] = "respond"
                /\ resp'[w] = [status |-> 200, kind |-> "macro", value |-> <<macro[w]>>]
      ]_vars

\* the response is returned after the first press of the macro
C8_Witness ==
    \E w \in Workers :
        /\ pc[w] = "respond" /\ resp[w].kind = "macro"
        /\ HasPress(child[w])

C10_HeldKeyIsDown ==
    \A e \in Executors : HeldKeys(e) \subseteq down

\* C10 as amended: the keyboard is not serialized; a key a combo has pressed
\* and not yet released is down unless another combo's release of the same key
\* has lifted it since, which happens when two running combos share a key.
C10_HeldKeyIsDownUnlessLifted ==
    \A e \in Executors :
        /\ (HeldKeys(e) \ lifted[e]) \subseteq down
        /\ lifted[e] \subseteq Range(pressed[e])

\* two combos run at once, and the release of one has lifted a key the other
\* still holds
C10_Witness ==
    \E e, x \in Executors :
        /\ e # x
        /\ pc[e] \in {"press", "release"} /\ pc[x] \in {"press", "release"}
        /\ \E k \in HeldKeys(e) : k \in lifted[e] /\ k \notin down
        /\ (HeldKeys(e) \ lifted[e]) # {}

(***************************************************************************)
(* Concurrent macro invocations.                                           *)
(***************************************************************************)
\* the steps 1..n of a macro, each complete
RECURSIVE LogUpTo(_, _)
LogUpTo(sq, n) ==
    IF n = 0 THEN << >> ELSE LogUpTo(sq, n - 1) \o StepLog(n, sq[n].combo)

\* the calls of the current press_combo of t, as entries of its step
CurrentStepLog(t) ==
    [i \in 1..Len(calls[t]) |-> Entry(calls[t][i].op, cursor[t], calls[t][i].key)]

\* what the calls and sleeps of thread t are, from its own cursor, seq and
\* current combo alone
OwnLog(t) ==
    IF pc[t] \in {"press", "release"}
        THEN LogUpTo(seq[t], cursor[t] - 1) \o CurrentStepLog(t)
    ELSE IF pc[t] = "sleep"
        THEN LET full == LogUpTo(seq[t], cursor[t]) IN SubSeq(full, 1, Len(full) - 1)
    ELSE IF pc[t] = "loop"
        THEN LogUpTo(seq[t], cursor[t] - 1)
    ELSE << >>

\* C11: the calls of each macro invocation, taken alone, are that macro's steps
\* in declared order, each step's presses followed by its releases in reverse
\* order, whatever another invocation does meanwhile: the log of a thread is
\* what its own seq, cursor and current combo give, its cursor stays within its
\* own seq, and its seq is the macro it was started with.
C11_ConcurrentMacrosIndependent ==
    \A t \in Threads :
        /\ mlog[t] = OwnLog(t)
        /\ pc[t] \in {"loop", "press", "release", "sleep"} =>
              /\ seq[t] = MacroGet(MACROS, name[t])
              /\ cursor[t] \in 1..(Len(seq[t]) + 1)
        /\ pc[t] \in {"press", "release"} =>
              /\ combo[t] = seq[t][cursor[t]].combo
              /\ IsPrefix(CallsOf(t, "press"),
                          [i \in 1..Len(parts[t]) |->
                              Call("press", parts[t][i], i <= Len(pressed[t]))])
              /\ \A i \in 1..Len(CallsOf(t, "release")) :
                    CallsOf(t, "release")[i].key = pressed[t][Len(pressed[t]) + 1 - i]

\* two invocations of different macros are both in the middle of a combo, one
\* of them in its second step
C11_Witness ==
    \E t, u \in Threads :
        /\ t # u /\ name[t] # name[u]
        /\ pc[t] = "release" /\ pc[u] = "release"
        /\ cursor[t] = 2 /\ Len(calls[t]) >= 2
        /\ Len(calls[u]) >= 1

(***************************************************************************)
(* The end of the process while macros run.                                *)
(***************************************************************************)
\* C12 as claimed: a macro thread is stopped between steps only: when the
\* process ends, no macro thread is stopped holding a key it has pressed and
\* issued no release for.
C12_StoppedOnlyBetweenSteps ==
    \A t \in Threads : pc[t] = "killed" => HeldKeys(t) = {}

(***************************************************************************)
(* Properties of the gateway.  A step is the serving of request r by       *)
(* worker w when it is the step api_press takes on r from the idle worker. *)
(***************************************************************************)
Serves(w, r) == RejectRequest(w, r) \/ ComboRequest(w, r) \/ MacroRequest(w, r)

\* the step answers with rsp from api_press itself: no backend call is issued,
\* no press_combo is entered, no thread is started and the keyboard is untouched
AnswersAtOnce(w, rsp) ==
    /\ pc'[w] = "respond" /\ resp'[w] = rsp
    /\ calls' = calls /\ parts' = parts /\ combo' = combo /\ down' = down
    /\ nthreads' = nthreads /\ mlog' = mlog /\ name' = name
    /\ \A t \in Threads : pc'[t] = pc[t]

\* no entry of BUTTONS has this id
NoSuchButton(id) == \A i \in 1..Len(BUTTONS) : BUTTONS[i].id # id

\* the body carries no usable id, combo or macro
NothingUsable(d) ==
    /\ d.id \in {NoneName, ""}
    /\ d.combo \in {NoneStr, << >>}
    /\ d.macro \in {NoneName, ""}

TokenAccepted(r) == SECRET_TOKEN = "" \/ r.token = SECRET_TOKEN

C14_BadTokenAlways401 ==
    [][ \A w \in Workers :
          (pc[w] = "idle" /\ pc'[w] # "idle") =>
             \A r \in Requests :
                ((r.token = NoneName \/ r.token # SECRET_TOKEN) /\ Serves(w, r)) =>
                    AnswersAtOnce(w, Resp401)
      ]_vars

\* C14 as amended: when the configured secret is not empty, a request whose
\* token is missing or is not the secret is answered 401 before api_press does
\* anything (no lookup result, no backend call, no thread), and only such a
\* request is; when the secret is empty the gate is off and no request is
\* answered 401, whatever its token.
C14_BadTokenRejectedWhenSecretSet ==
    [][ \A w \in Workers :
          (pc[w] = "idle" /\ pc'[w] # "idle") =>
             /\ SECRET_TOKEN = "" => resp'[w] # Resp401
             /\ \A r \in Requests :
                  /\ (SECRET_TOKEN # "" /\ r.token # SECRET_TOKEN /\ Serves(w, r)) =>
                        AnswersAtOnce(w, Resp401)
                  /\ (r.token = SECRET_TOKEN /\ Serves(w, r)) => resp'[w] # Resp401
      ]_vars

\* with a secret configured, both workers hold the 401 response and nothing
\* has been pressed or started
C14_Witness ==
    /\ SECRET_TOKEN = "change-me"
    /\ \A w \in Workers : pc[w] = "respond" /\ resp[w] = Resp401
    /\ nthreads = 0 /\ down = {}
    /\ \A e \in Executors : calls[e] = << >>

(***************************************************************************)
(* Properties of _to_key.                                                  *)
(***************************************************************************)
\* the same character, or the two cases of one letter
SameLetter(c, d) ==
    \/ c = d
    \/ \E i \in 1..Len(UpperChars) : {c, d} = {UpperChars[i], LowerChars[i]}

\* a is x with i whitespace characters before it and j after it
Padded(a, i, j) ==
    /\ i + j <= Len(a)
    /\ \A n \in 1..i : a[n] \in Whitespace
    /\ \A n \in (Len(a) - j + 1)..Len(a) : a[n] \in Whitespace

\* a and b differ in letter case and in leading and trailing whitespace only
VariantOf(a, b) ==
    \E i, j \in 0..Len(a) : \E k, l \in 0..Len(b) :
        /\ Padded(a, i, j) /\ Padded(b, k, l)
        /\ Len(a) - i - j = Len(b) - k - l
        /\ \A n \in 1..(Len(a) - i - j) : SameLetter(a[i + n], b[k + n])

\* C15: _to_key returns the same key identifier for tokens that differ only in
\* letter case or in leading and trailing whitespace, and for a single
\* upper-case letter it returns the literal key of the lower-case letter.
C15_ToKeyIgnoresCaseAndPadding ==
    /\ \A i, j \in Calls :
          (resolved[i] # NoneStr /\ resolved[j] # NoneStr /\ VariantOf(given[i], given[j])) =>
              resolved[i] = resolved[j]
    /\ \A i \in Calls : \A n \in 1..Len(UpperChars) :
          (resolved[i] # NoneStr /\ given[i] = <<UpperChars[n]>>) => resolved[i] = <<LowerChars[n]>>

\* "Ctrl" and " CTRL " have both been resolved, to the ctrl key
C15_Witness ==
    /\ given[1] = <<"C","t","r","l">> /\ given[2] = <<" ","C","T","R","L"," ">>
    /\ resolved[1] = <<"Key.ctrl">> /\ resolved[2] = <<"Key.ctrl">>

\* the first entry of BUTTONS with this id
ButtonOf(id) ==
    LET ids == { i \in 1..Len(BUTTONS) : BUTTONS[i].id = id }
    IN  BUTTONS[CHOOSE i \in ids : \A j \in ids : i <= j]

\* the step enters press_combo(c) in the worker and starts no thread
RunsComboOnly(w, c) ==
    /\ pc'[w] \in {"press", "release"} /\ combo'[w] = c
    /\ nthreads' = nthreads /\ child'[w] = NoThread
    /\ \A t \in Threads : pc'[t] = pc[t] /\ name'[t] = name[t]

\* the step starts one thread on run_macro(m) and runs no combo in the worker
StartsThreadOnly(w, m) ==
    /\ pc'[w] = "started" /\ nthreads' = nthreads + 1
    /\ child'[w] \in Threads /\ pc[child'[w]] = "unused"
    /\ pc'[child'[w]] = "entry" /\ name'[child'[w]] = m
    /\ \A t \in Threads \ {child'[w]} : pc'[t] = pc[t]
    /\ combo'[w] = << >> /\ parts'[w] = << >> /\ calls' = calls

\* C16: api_press takes at most one execution path for a request: where an id
\* is given and found, the combo and the macro are those of the button and not
\* those sent along; where a combo results it alone is executed and no thread
\* is started, a macro sent along or not; a thread is started only where no
\* combo results, and then the worker runs no combo.
C16_AtMostOnePath ==
    [][ \A w \in Workers :
          /\ pc[w] \in {"press", "release"} => child[w] = NoThread
          /\ pc[w] = "started" => (calls[w] = << >> /\ child[w] # NoThread)
          /\ (pc[w] = "idle" /\ pc'[w] # "idle") =>
               \A r \in Requests :
                  LET usable == r.data.id \notin {NoneName, ""}
                      c == IF usable THEN ButtonOf(r.data.id).combo ELSE r.data.combo
                      m == IF usable THEN ButtonOf(r.data.id).macro ELSE r.data.macro
                  IN  ( /\ TokenAccepted(r)
                        /\ ~(usable /\ NoSuchButton(r.data.id))
                        /\ Serves(w, r) ) =>
                          /\ c \notin {NoneStr, << >>} => RunsComboOnly(w, c)
                          /\ (c \in {NoneStr, << >>} /\ m \notin {NoneName, ""}) =>
                                StartsThreadOnly(w, m)
      ]_vars

\* one worker has started the thread of cold_start_demo and runs no combo,
\* while the other runs the combo "w" and no second thread exists
C16_Witness ==
    \E w, v \in Workers :
        /\ pc[w] = "started" /\ macro[w] = "cold_start_demo" /\ calls[w] = << >>
        /\ pc[v] = "release" /\ combo[v] = <<"w">> /\ child[v] = NoThread
        /\ nthreads = 1

\* C17: a combo request is executed synchronously: the combo-executed response
\* is produced only by the worker that ran the combo, once press_combo has
\* issued the press of every key and a release of every key and raised
\* nothing; and when press_combo raises, the response is the error (HTTP 500),
\* never a success.
C17_ComboSynchronous ==
    [][ \A w \in Workers :
          /\ (resp'[w] # resp[w] /\ resp'[w].status = 200 /\ resp'[w].kind = "combo") =>
                LET ks == Parts(resp'[w].value)
                    n  == Len(ks)
                IN  /\ pc[w] = "release" /\ queue[w] = << >> /\ ~raised[w]
                    /\ combo[w] = resp'[w].value
                    /\ Len(calls[w]) = 2 * n
                    /\ \A i \in 1..n :
                         /\ calls[w][i] = Call("press", ks[i], TRUE)
                         /\ calls[w][n + i].op = "release"
                         /\ calls[w][n + i].key = ks[n + 1 - i]
          /\ (pc[w] \in {"press", "release"} /\ pc'[w] \notin {"press", "release"}) =>
                /\ pc'[w] = "respond"
                /\ raised[w] => resp'[w] = Resp500
                /\ ~raised[w] => resp'[w] = RespCombo(combo[w])
          /\ pc[w] \in {"press", "release"} => resp[w] = NoResponse
      ]_vars

\* the error response is out for a combo whose press was refused while the
\* other worker holds the success response of a two-key combo
C17_Witness ==
    \E w, v \in Workers :
        /\ pc[w] = "respond" /\ resp[w] = Resp500
        /\ pc[v] = "respond" /\ resp[v].kind = "combo" /\ Len(Tokens(resp[v].value)) = 2

(***************************************************************************)
(* Termination of run_macro.                                               *)
(***************************************************************************)
Ended(t) == pc[t] \in {"done", "dead"}

\* C18: every started macro thread ends; as long as no press call raises it
\* ends by returning from run_macro after the last step of its macro; and
\* whenever press_combo is left, a release call has been issued for every key
\* it pressed, so that the thread ends holding no key.
C18_MacroRunnerTerminates ==
    /\ \A t \in Threads : (pc[t] = "entry") ~> Ended(t)
    /\ [][\A t \in Threads :
            (pc'[t] = "dead" /\ pc[t] # "dead") => (AtExit(t) /\ raised[t])]_vars
    /\ [](\A t \in Threads :
             /\ AtExit(t) => HeldKeys(t) = {}
             /\ Ended(t) => (pressed[t] = << >> /\ queue[t] = << >>)
             /\ pc[t] = "done" => cursor[t] = Len(seq[t]) + 1)

\* a macro of two steps has run to its end
C18_Witness ==
    \E t \in Threads :
        /\ pc[t] = "done" /\ Len(seq[t]) = 2 /\ cursor[t] = 3
        /\ pressed[t] = << >>

(***************************************************************************)
(* Properties of sendCommand (src/test.py).                                *)
(***************************************************************************)
\* the keys the handler has pressed and issued no release call for
SendHeld ==
    { sent[i].key : i \in { j \in 1..Len(sent) : sent[j].op = "press" /\ sent[j].ok } }
      \ { sent[i].key : i \in { j \in 1..Len(sent) : sent[j].op = "release" } }

\* C19 as claimed: sendCommand never returns with a key it pressed still held:
\* when it returns, with the ok response or with the error response (500), a
\* release call has been issued for every key it pressed.
C19_SendCommandLeavesNoKeyHeld ==
    handler = "return" => SendHeld = {}

(***************************************************************************)
(* Properties of the built-in catalog (BUTTONS, MACROS as shipped).        *)
(***************************************************************************)
\* a macro thread that runs the cold_start_demo of the shipped MACROS, as the
\* button 'start' makes one
RunsBuiltinDemo(t) ==
    /\ pc[t] # "unused"
    /\ seq[t] = BuiltinMACROS["cold_start_demo"]

\* C20 as claimed: every combo of the built-in catalog is injectable, so a
\* thread started by the button 'start' only ever hands the backend key
\* identifiers it can inject (a special key or a single character) and never
\* ends on an exception before its six steps are done.
C20_BuiltinCatalogInjectable ==
    \A t \in Threads :
        RunsBuiltinDemo(t) =>
            /\ \A i \in 1..Len(parts[t]) : Injectable(parts[t][i])
            /\ pc[t] # "dead"

====
